---- MODULE Spec2Model ----
(***************************************************************************)
(* Tree detection and cluster population of the Forma extension backend:   *)
(* python_backend/main.py (the /detect-trees handler) and                  *)
(* python_backend/tree_detector_core.py (detect_trees_in_image and         *)
(* populate_cluster).                                                      *)
(*                                                                         *)
(* Numbers.  Python floats are modelled as exact rationals, records        *)
(* [n |-> numerator, d |-> denominator] in lowest terms with d > 0;        *)
(* math.pi is the rational Pi below.  round(v, 2) yields a whole number of *)
(* hundredths (Round2), so every reported (rounded) quantity is an integer *)
(* count of hundredths.  A square root is never materialised: a value      *)
(* sqrt(s) is carried as its radicand s and compared through squares.      *)
(***************************************************************************)
EXTENDS Integers, Sequences, FiniteSets, TLC

VARIABLES
    request,           \* the form fields and the uploaded image of the call
    npRandom,          \* state of the process-wide generator behind np.random
    pc,                \* position of the handler
    trace,             \* pipeline steps the current call has executed
    contourIdx,        \* position of the `for contour in contours` loop
    momentsOf,         \* contours for which cv2.moments has been computed
    individual_trees,  \* detect_trees_in_image: individual_trees
    tree_clusters,     \* detect_trees_in_image: tree_clusters
    populated_trees,   \* populate_cluster: populated_trees
    attempts,          \* populate_cluster: attempts
    response,          \* what the handler answered, NoResponse while running
    run,               \* which call with these inputs this is
    firstResponse,     \* the answer of the first call
    rngAtCall,         \* npRandom when the current call began
    otherDraws         \* draws other code made on np.random between calls

vars == <<request, npRandom, pc, trace, contourIdx, momentsOf, individual_trees,
          tree_clusters, populated_trees, attempts, response, run,
          firstResponse, rngAtCall, otherDraws>>

None == "None"

\* no answer yet
NoResponse == [status |-> 0, body |-> None]

-----------------------------------------------------------------------------
(* Bounds of the model *)

RngMod == 16         \* number of states of the generator
MaxRuns == 2         \* calls made with the same inputs
MaxOtherDraws == 1   \* draws by other code between two calls

-----------------------------------------------------------------------------
(* Exact rational arithmetic standing for float arithmetic *)

RECURSIVE Gcd(_, _)
Gcd(a, b) == IF b = 0 THEN a ELSE Gcd(b, a % b)

Abs(k) == IF k < 0 THEN -k ELSE k

\* n/d in lowest terms, d # 0
R(n, d) ==
    LET g == Gcd(Abs(n), Abs(d))
        s == IF d < 0 THEN -1 ELSE 1
    IN  [n |-> s * (n \div g), d |-> s * (d \div g)]

RInt(k) == [n |-> k, d |-> 1]
RAdd(a, b) == R(a.n * b.d + b.n * a.d, a.d * b.d)
RSub(a, b) == R(a.n * b.d - b.n * a.d, a.d * b.d)
RMul(a, b) == R(a.n * b.n, a.d * b.d)
RDiv(a, b) == R(a.n * b.d, a.d * b.n)          \* b # 0
RSq(a) == RMul(a, a)
RLt(a, b) == a.n * b.d < b.n * a.d
RLe(a, b) == a.n * b.d <= b.n * a.d
RZero(a) == a.n = 0

\* int(v): truncation toward zero
RTrunc(a) == IF a.n >= 0 THEN a.n \div a.d ELSE -((-a.n) \div a.d)

\* round(v, 2) in hundredths, ties to even
Round2(a) ==
    LET num == 100 * a.n
        f == num \div a.d
        r == num % a.d
    IN  IF 2 * r < a.d THEN f
        ELSE IF 2 * r > a.d THEN f + 1
        ELSE IF f % 2 = 0 THEN f ELSE f + 1

\* the hundredths value h as a number
Hundredths(h) == R(h, 100)

\* a <= sqrt(s), sqrt(s) <= b, sqrt(s) < b  for s >= 0
LeSqrt(a, s) == a.n <= 0 \/ RLe(RSq(a), s)
SqrtLe(s, b) == b.n >= 0 /\ RLe(s, RSq(b))
SqrtLt(s, b) == b.n > 0 /\ RLt(s, RSq(b))

\* round(sqrt(s), 2) in hundredths, s >= 0: the k with k - 1/2 <= 100 sqrt(s) < k + 1/2
RECURSIVE Round2SqrtFrom(_, _)
Round2SqrtFrom(s, k) ==
    IF (2 * k + 1) * (2 * k + 1) * s.d > 40000 * s.n THEN k
    ELSE Round2SqrtFrom(s, k + 1)

Round2Sqrt(s) == Round2SqrtFrom(s, 0)

\* math.pi
Pi == R(22, 7)

-----------------------------------------------------------------------------
(* OpenCV geometry on a contour: a sequence of pixel points <<x, y>> *)

Succ(contour, k) == contour[(k % Len(contour)) + 1]

Cross(p, q) == p[1] * q[2] - q[1] * p[2]

RECURSIVE SumOver(_, _, _)
SumOver(f, contour, k) ==
    IF k = 0 THEN 0 ELSE f[k] + SumOver(f, contour, k - 1)

\* twice the signed shoelace area
Shoelace2(contour) ==
    SumOver([k \in 1..Len(contour) |-> Cross(contour[k], Succ(contour, k))],
            contour, Len(contour))

\* cv2.contourArea(contour)
contourArea(contour) == R(Abs(Shoelace2(contour)), 2)

\* cv2.moments(contour): m00, m10, m01 by Green's formula, made non-negative
moments(contour) ==
    LET a00 == Shoelace2(contour)
        a10 == SumOver([k \in 1..Len(contour) |->
                   Cross(contour[k], Succ(contour, k))
                     * (contour[k][1] + Succ(contour, k)[1])],
                   contour, Len(contour))
        a01 == SumOver([k \in 1..Len(contour) |->
                   Cross(contour[k], Succ(contour, k))
                     * (contour[k][2] + Succ(contour, k)[2])],
                   contour, Len(contour))
        sg == IF a00 < 0 THEN -1 ELSE 1
    IN  [m00 |-> R(sg * a00, 2), m10 |-> R(sg * a10, 6), m01 |-> R(sg * a01, 6)]

SetMin(S) == CHOOSE m \in S : \A e \in S : m <= e
SetMax(S) == CHOOSE m \in S : \A e \in S : m >= e

\* cv2.boundingRect(contour): x, y, w, h
boundingRect(contour) ==
    LET xs == {contour[k][1] : k \in 1..Len(contour)}
        ys == {contour[k][2] : k \in 1..Len(contour)}
    IN  [x |-> SetMin(xs), y |-> SetMin(ys),
         w |-> SetMax(xs) - SetMin(xs) + 1, h |-> SetMax(ys) - SetMin(ys) + 1]

OnSegment(p, a, b) ==
    /\ (b[1] - a[1]) * (p[2] - a[2]) = (b[2] - a[2]) * (p[1] - a[1])
    /\ p[1] >= (IF a[1] < b[1] THEN a[1] ELSE b[1])
    /\ p[1] <= (IF a[1] < b[1] THEN b[1] ELSE a[1])
    /\ p[2] >= (IF a[2] < b[2] THEN a[2] ELSE b[2])
    /\ p[2] <= (IF a[2] < b[2] THEN b[2] ELSE a[2])

\* the edge a-b crosses the ray from p towards +x
CrossesRay(p, a, b) ==
    /\ (a[2] > p[2]) # (b[2] > p[2])
    /\ IF b[2] > a[2]
       THEN (p[1] - a[1]) * (b[2] - a[2]) < (p[2] - a[2]) * (b[1] - a[1])
       ELSE (p[1] - a[1]) * (b[2] - a[2]) > (p[2] - a[2]) * (b[1] - a[1])

\* cv2.pointPolygonTest(contour, p, False): +1 inside, 0 on an edge, -1 outside
pointPolygonTest(contour, p) ==
    IF \E k \in 1..Len(contour) : OnSegment(p, contour[k], Succ(contour, k))
    THEN 0
    ELSE IF Cardinality({k \in 1..Len(contour) :
                           CrossesRay(p, contour[k], Succ(contour, k))}) % 2 = 1
    THEN 1
    ELSE -1

-----------------------------------------------------------------------------
(* np.random: one process-wide generator; every draw advances its state *)

Advance(s) == (5 * s + 3) % RngMod

\* np.random.randint(lo, hi) drawn in state s (the state after advancing)
randint(s, lo, hi) == lo + (s * (hi - lo)) \div RngMod

\* np.random.uniform(lo, hi) drawn in state s
uniform(s, lo, hi) == RAdd(lo, RMul(RSub(hi, lo), R(s, RngMod)))

-----------------------------------------------------------------------------
(* The inputs of a call *)

\* contours cv2.findContours can return for an 8 x 8 image (disjoint blobs)
Dot == << <<7, 3>> >>
Square == << <<0, 0>>, <<0, 2>>, <<2, 2>>, <<2, 0>> >>
Tri == << <<4, 0>>, <<4, 3>>, <<7, 0>> >>
Rect == << <<0, 5>>, <<0, 7>>, <<6, 7>>, <<6, 5>> >>
Speck == << <<0, 0>>, <<0, 1>>, <<1, 1>>, <<1, 0>> >>

ContourLists ==
    { <<>>, <<Square>>, <<Tri>>, <<Rect>>, <<Dot, Rect>>, <<Square, Tri>>,
      <<Tri, Rect>>, <<Rect, Tri>>, <<Rect, Square, Tri>>, <<Speck, Tri>> }

\* the upload: a decodable image (with the contours its mask has under the
\* request's HSV thresholds), bytes that are no image, or an empty buffer
Images ==
    {[kind |-> "ok", width |-> 8, height |-> 8, contours |-> cs] : cs \in ContourLists}
      \cup {[kind |-> k, width |-> 0, height |-> 0, contours |-> <<>>] :
               k \in {"undecodable", "empty"}}

HsvThresholds ==
    [hue |-> [min |-> 35, max |-> 85],
     saturation |-> [min |-> 40, max |-> 255],
     value |-> [min |-> 40, max |-> 255]]

Params(rw, rh, mn, mx, ct) ==
    [real_width |-> rw, real_height |-> rh,
     min_diameter |-> mn, max_diameter |-> mx, cluster_threshold |-> ct]

\* form fields; the handler accepts any floats
ParamSets ==
    { Params(RInt(1), RInt(2), R(169, 400), R(1, 2), RInt(1)),
      Params(RInt(1), RInt(2), R(1, 4), R(3, 8), R(169, 400)),
      Params(RInt(1), RInt(2), R(3, 8), R(7, 16), R(1, 2)),
      Params(RInt(1), RInt(2), R(1, 4), R(3, 8), R(1, 8)),
      Params(RInt(1), RInt(2), R(1, 4), R(1, 2), RInt(1)),
      Params(RInt(1), RInt(2), R(3, 10), R(5, 16), R(1, 2)),
      Params(RInt(0), RInt(2), R(1, 4), R(3, 8), R(1, 2)),
      Params(RInt(-1), RInt(2), R(1, 4), R(3, 8), R(1, 2)),
      Params(RInt(1), RInt(2), RInt(0), R(1, 4), RInt(1)),
      Params(RInt(1), RInt(2), R(1, 2), R(1, 4), R(1, 4)),
      Params(RInt(1), RInt(2), R(-1, 4), R(1, 4), R(1, 8)) }

Requests ==
    {[image |-> img, hsv |-> HsvThresholds, params |-> p] :
        img \in Images, p \in ParamSets}

-----------------------------------------------------------------------------
(* detect_trees_in_image: values derived from the request *)

height == request.image.height
width == request.image.width
contours == request.image.contours
detection_params ==
    [min_diameter |-> request.params.min_diameter,
     max_diameter |-> request.params.max_diameter,
     cluster_threshold |-> request.params.cluster_threshold]
real_dimensions ==
    [width |-> request.params.real_width, height |-> request.params.real_height]

meters_per_pixel_x == RDiv(real_dimensions.width, RInt(width))
meters_per_pixel_y == RDiv(real_dimensions.height, RInt(height))
ScaleProduct == RMul(meters_per_pixel_x, meters_per_pixel_y)

min_area_m2 == RMul(Pi, RSq(RDiv(detection_params.min_diameter, RInt(2))))
min_area_pixels == RDiv(min_area_m2, ScaleProduct)
cluster_area_m2 == RMul(Pi, RSq(RDiv(detection_params.cluster_threshold, RInt(2))))

area_pixels(contour) == contourArea(contour)
area_m2(contour) == RMul(area_pixels(contour), ScaleProduct)

cx_px(contour) == RTrunc(RDiv(moments(contour).m10, moments(contour).m00))
cy_px(contour) == RTrunc(RDiv(moments(contour).m01, moments(contour).m00))

\* [cx_m, cy_m] with the flipped Y, unrounded
centroid_m(contour) ==
    << RMul(RInt(cx_px(contour)), meters_per_pixel_x),
       RMul(RInt(height - cy_px(contour)), meters_per_pixel_y) >>

\* polygon_m, unrounded
polygon_m(contour) ==
    [k \in 1..Len(contour) |->
        << RMul(RInt(contour[k][1]), meters_per_pixel_x),
           RMul(RInt(height - contour[k][2]), meters_per_pixel_y) >>]

RoundPoint(p) == << Round2(p[1]), Round2(p[2]) >>

\* the radicand of estimated_diameter_m = 2 * sqrt(area_m2 / pi), squared
estimated_diameter_sq(contour) == RMul(RInt(4), RDiv(area_m2(contour), Pi))


\* the pixel area compared with the threshold in square metres
IsNoise_unscaled(contour) == RLt(area_pixels(contour), min_area_m2)

IsNoise(contour) == RLt(area_pixels(contour), min_area_pixels)
ZeroMass(contour) == RZero(moments(contour).m00)

\* the area compared with the minimum area instead of the cluster area
IsCluster_min_area(contour) == RLt(min_area_m2, area_m2(contour))
IsCluster(contour) == RLt(cluster_area_m2, area_m2(contour))

\* the upper size constraint left out
WithinSize_min_only(contour) ==
    LeSqrt(detection_params.min_diameter, estimated_diameter_sq(contour))
WithinSize(contour) ==
    /\ LeSqrt(detection_params.min_diameter, estimated_diameter_sq(contour))
    /\ SqrtLe(estimated_diameter_sq(contour), detection_params.max_diameter)

ClusterEntry(contour, trees) ==
    [type |-> "cluster",
     areaM2 |-> Round2(area_m2(contour)),
     centroidPx |-> << cx_px(contour), cy_px(contour) >>,
     centroidM |-> RoundPoint(centroid_m(contour)),
     polygonPx |-> contour,
     polygonM |-> [k \in 1..Len(contour) |-> RoundPoint(polygon_m(contour)[k])],
     populatedTrees |-> trees]

IndividualEntry(contour) ==
    [type |-> "individual",
     centroidPx |-> << cx_px(contour), cy_px(contour) >>,
     centroidM |-> RoundPoint(centroid_m(contour)),
     areaM2 |-> Round2(area_m2(contour)),
     estimatedDiameterM |-> Round2Sqrt(estimated_diameter_sq(contour)),
     polygonPx |-> contour,
     polygonM |-> [k \in 1..Len(contour) |-> RoundPoint(polygon_m(contour)[k])]]

RECURSIVE SumLens(_, _)
SumLens(clusters, k) ==
    IF k = 0 THEN 0
    ELSE Len(clusters[k].populatedTrees) + SumLens(clusters, k - 1)

\* the clusters counted instead of their trees
total_populated_clusters(clusters) == Len(clusters)
total_populated(clusters) == SumLens(clusters, Len(clusters))

\* the returned dictionary
DetectionResult(individuals, clusters) ==
    [metadata |->
        [timestamp |-> run,
         imageDimensionsPx |-> [width |-> width, height |-> height],
         realDimensionsM |-> real_dimensions,
         metersPerPixel |-> [x |-> meters_per_pixel_x, y |-> meters_per_pixel_y],
         hsvRange |-> request.hsv,
         detectionParameters |-> detection_params],
     summary |->
        [individualTreesCount |-> Len(individuals),
         treeClustersCount |-> Len(clusters),
         totalPopulatedTrees |-> total_populated(clusters)],
     individualTrees |-> individuals,
     treeClusters |-> clusters]

-----------------------------------------------------------------------------
(* populate_cluster: values derived from its arguments *)

avg_tree_diameter ==
    RDiv(RAdd(detection_params.min_diameter, detection_params.max_diameter), RInt(2))
avg_tree_area == RMul(Pi, RSq(RDiv(avg_tree_diameter, RInt(2))))

Max2(a, b) == IF a > b THEN a ELSE b

estimated_tree_count(contour) ==
    Max2(1, RTrunc(RDiv(area_m2(contour), avg_tree_area)))

avg_meters_per_pixel == RDiv(RAdd(meters_per_pixel_x, meters_per_pixel_y), RInt(2))
min_spacing_px == RDiv(detection_params.min_diameter, avg_meters_per_pixel)

max_attempts(contour) == estimated_tree_count(contour) * 10

\* the attempt budget left out of the while condition
LoopGuard_no_budget(contour, trees, att) ==
    Len(trees) < estimated_tree_count(contour) /\ att >= 0

\* the while condition
LoopGuard(contour, trees, att) ==
    Len(trees) < estimated_tree_count(contour) /\ att < max_attempts(contour)

\* the candidate of an iteration begun in generator state s
test_x(contour, s) ==
    randint(Advance(s), boundingRect(contour).x,
            boundingRect(contour).x + boundingRect(contour).w)
test_y(contour, s) ==
    randint(Advance(Advance(s)), boundingRect(contour).y,
            boundingRect(contour).y + boundingRect(contour).h)

\* a candidate on the boundary rejected too
OutsideContour_boundary(contour, x, y) == pointPolygonTest(contour, <<x, y>>) <= 0
OutsideContour(contour, x, y) == pointPolygonTest(contour, <<x, y>>) < 0

DistSq(x, y, p) == (x - p[1]) * (x - p[1]) + (y - p[2]) * (y - p[2])

\* the candidate compared with the last accepted tree only
too_close_last_only(trees, x, y) ==
    /\ Len(trees) > 0
    /\ SqrtLt(RInt(DistSq(x, y, trees[Len(trees)].positionPx)), min_spacing_px)

too_close(trees, x, y) ==
    \E k \in 1..Len(trees) :
        SqrtLt(RInt(DistSq(x, y, trees[k].positionPx)), min_spacing_px)

\* position_m without the flip of the Y axis
position_m_unflipped(x, y) ==
    << RMul(RInt(x), meters_per_pixel_x), RMul(RInt(y), meters_per_pixel_y) >>

\* position_m, unrounded
position_m(x, y) ==
    << RMul(RInt(x), meters_per_pixel_x),
       RMul(RInt(height - y), meters_per_pixel_y) >>

\* the dictionary appended for a candidate accepted in generator state s
PopulatedTree(x, y, s) ==
    [positionPx |-> <<x, y>>,
     positionM |-> RoundPoint(position_m(x, y)),
     estimatedDiameterM |->
        Round2(uniform(Advance(Advance(Advance(s))),
                       detection_params.min_diameter,
                       detection_params.max_diameter))]

-----------------------------------------------------------------------------
(* The /detect-trees handler *)

Init ==
    /\ request \in Requests
    /\ npRandom \in 0..(RngMod - 1)
    /\ pc = "request"
    /\ trace = {}
    /\ contourIdx = 0
    /\ momentsOf = {}
    /\ individual_trees = <<>>
    /\ tree_clusters = <<>>
    /\ populated_trees = <<>>
    /\ attempts = 0
    /\ response = NoResponse
    /\ run = 1
    /\ firstResponse = NoResponse
    /\ rngAtCall = npRandom
    /\ otherDraws = 0

\* the handler answers and the call is over
Answer(status, body) ==
    /\ response' = [status |-> status, body |-> body]
    /\ pc' = "done"

contour == contours[contourIdx]

\* cv2.imdecode yields None: HTTP 400.  For an empty buffer OpenCV either
\* yields None or raises cv2.error (caught as Exception: HTTP 500).
DecodeFails ==
    /\ pc = "request"
    /\ request.image.kind # "ok"
    /\ \E status \in {400, 500} :
          /\ status = 500 => request.image.kind = "empty"
          /\ Answer(status, None)
    /\ UNCHANGED <<request, npRandom, trace, contourIdx, momentsOf, individual_trees,
                   tree_clusters, populated_trees, attempts, run, firstResponse,
                   rngAtCall, otherDraws>>

\* detect_trees_in_image up to the loop: mask, contours, thresholds
BeginDetection ==
    /\ pc = "request"
    /\ request.image.kind = "ok"
    /\ ~RZero(ScaleProduct)
    /\ trace' = {"segment", "extract"}
    /\ contourIdx' = 1
    /\ individual_trees' = <<>>
    /\ tree_clusters' = <<>>
    /\ pc' = "loop"
    /\ UNCHANGED <<request, npRandom, momentsOf, populated_trees, attempts, response,
                   run, firstResponse, rngAtCall, otherDraws>>

\* min_area_m2 / (meters_per_pixel_x * meters_per_pixel_y) raises
\* ZeroDivisionError after the mask and the contours were computed: HTTP 500
ScaleError ==
    /\ pc = "request"
    /\ request.image.kind = "ok"
    /\ RZero(ScaleProduct)
    /\ trace' = {"segment", "extract"}
    /\ Answer(500, None)
    /\ UNCHANGED <<request, npRandom, contourIdx, momentsOf, individual_trees,
                   tree_clusters, populated_trees, attempts, run, firstResponse,
                   rngAtCall, otherDraws>>

InLoop == pc = "loop" /\ contourIdx <= Len(contours)

\* if area_pixels < min_area_pixels: continue
SkipNoise ==
    /\ InLoop
    /\ IsNoise(contour)
    /\ contourIdx' = contourIdx + 1
    /\ UNCHANGED <<request, npRandom, pc, trace, momentsOf, individual_trees,
                   tree_clusters, populated_trees, attempts, response, run,
                   firstResponse, rngAtCall, otherDraws>>

\* if M["m00"] == 0: continue
SkipZeroMass ==
    /\ InLoop
    /\ ~IsNoise(contour)
    /\ momentsOf' = momentsOf \cup {contourIdx}
    /\ ZeroMass(contour)
    /\ contourIdx' = contourIdx + 1
    /\ UNCHANGED <<request, npRandom, pc, trace, individual_trees, tree_clusters,
                   populated_trees, attempts, response, run, firstResponse,
                   rngAtCall, otherDraws>>

Classified ==
    /\ InLoop
    /\ ~IsNoise(contour)
    /\ momentsOf' = momentsOf \cup {contourIdx}
    /\ ~ZeroMass(contour)

\* area_m2 > cluster_area_m2: populate_cluster is entered
EnterCluster ==
    /\ Classified
    /\ IsCluster(contour)
    /\ ~RZero(avg_tree_area) /\ ~RZero(avg_meters_per_pixel)
    /\ trace' = trace \cup {"classify", "populate"}
    /\ populated_trees' = <<>>
    /\ attempts' = 0
    /\ pc' = "populate"
    /\ UNCHANGED <<request, npRandom, contourIdx, individual_trees, tree_clusters,
                   response, run, firstResponse, rngAtCall, otherDraws>>

\* populate_cluster divides by avg_tree_area or avg_meters_per_pixel, which
\* is zero: ZeroDivisionError, HTTP 500
PopulateError ==
    /\ Classified
    /\ IsCluster(contour)
    /\ RZero(avg_tree_area) \/ RZero(avg_meters_per_pixel)
    /\ trace' = trace \cup {"classify", "populate"}
    /\ Answer(500, None)
    /\ UNCHANGED <<request, npRandom, contourIdx, individual_trees, tree_clusters,
                   populated_trees, attempts, run, firstResponse, rngAtCall,
                   otherDraws>>

\* math.sqrt of a negative area raises ValueError: HTTP 500
SqrtError ==
    /\ Classified
    /\ ~IsCluster(contour)
    /\ area_m2(contour).n < 0
    /\ trace' = trace \cup {"classify"}
    /\ Answer(500, None)
    /\ UNCHANGED <<request, npRandom, contourIdx, individual_trees, tree_clusters,
                   populated_trees, attempts, run, firstResponse, rngAtCall,
                   otherDraws>>

\* an individual tree within the size constraints
AppendIndividual ==
    /\ Classified
    /\ ~IsCluster(contour)
    /\ area_m2(contour).n >= 0
    /\ WithinSize(contour)
    /\ trace' = trace \cup {"classify"}
    /\ individual_trees' = Append(individual_trees, IndividualEntry(contour))
    /\ contourIdx' = contourIdx + 1
    /\ UNCHANGED <<request, npRandom, pc, tree_clusters, populated_trees, attempts,
                   response, run, firstResponse, rngAtCall, otherDraws>>

\* an individual tree outside the size constraints is not included
DropIndividual ==
    /\ Classified
    /\ ~IsCluster(contour)
    /\ area_m2(contour).n >= 0
    /\ ~WithinSize(contour)
    /\ trace' = trace \cup {"classify"}
    /\ contourIdx' = contourIdx + 1
    /\ UNCHANGED <<request, npRandom, pc, individual_trees, tree_clusters,
                   populated_trees, attempts, response, run, firstResponse,
                   rngAtCall, otherDraws>>

-----------------------------------------------------------------------------
(* populate_cluster: one action per kind of loop iteration *)

Iterating ==
    /\ pc = "populate"
    /\ LoopGuard(contour, populated_trees, attempts)
    /\ attempts' = attempts + 1

\* pointPolygonTest(...) < 0: continue
PopOutside ==
    /\ Iterating
    /\ OutsideContour(contour, test_x(contour, npRandom), test_y(contour, npRandom))
    /\ npRandom' = Advance(Advance(npRandom))
    /\ UNCHANGED <<request, pc, trace, contourIdx, momentsOf, individual_trees,
                   tree_clusters, populated_trees, response, run, firstResponse,
                   rngAtCall, otherDraws>>

\* if too_close: continue
PopTooClose ==
    /\ Iterating
    /\ ~OutsideContour(contour, test_x(contour, npRandom), test_y(contour, npRandom))
    /\ too_close(populated_trees, test_x(contour, npRandom), test_y(contour, npRandom))
    /\ npRandom' = Advance(Advance(npRandom))
    /\ UNCHANGED <<request, pc, trace, contourIdx, momentsOf, individual_trees,
                   tree_clusters, populated_trees, response, run, firstResponse,
                   rngAtCall, otherDraws>>

\* the candidate is accepted: a diameter is drawn and the tree appended
PopAccept ==
    /\ Iterating
    /\ ~OutsideContour(contour, test_x(contour, npRandom), test_y(contour, npRandom))
    /\ ~too_close(populated_trees, test_x(contour, npRandom), test_y(contour, npRandom))
    /\ populated_trees' =
          Append(populated_trees,
                 PopulatedTree(test_x(contour, npRandom), test_y(contour, npRandom),
                               npRandom))
    /\ npRandom' = Advance(Advance(Advance(npRandom)))
    /\ UNCHANGED <<request, pc, trace, contourIdx, momentsOf, individual_trees,
                   tree_clusters, response, run, firstResponse, rngAtCall, otherDraws>>

\* the loop is over: return populated_trees; the caller appends the cluster
PopulateReturn ==
    /\ pc = "populate"
    /\ ~LoopGuard(contour, populated_trees, attempts)
    /\ tree_clusters' = Append(tree_clusters, ClusterEntry(contour, populated_trees))
    /\ contourIdx' = contourIdx + 1
    /\ pc' = "loop"
    /\ UNCHANGED <<request, npRandom, trace, momentsOf, individual_trees,
                   populated_trees, attempts, response, run, firstResponse,
                   rngAtCall, otherDraws>>

-----------------------------------------------------------------------------

\* the summary and the result; the handler returns it as JSON (HTTP 200)
Assemble ==
    /\ pc = "loop"
    /\ contourIdx > Len(contours)
    /\ Answer(200, DetectionResult(individual_trees, tree_clusters))
    /\ UNCHANGED <<request, npRandom, trace, contourIdx, momentsOf, individual_trees,
                   tree_clusters, populated_trees, attempts, run, firstResponse,
                   rngAtCall, otherDraws>>

\* other code of the process draws from np.random between two calls
OtherDraw ==
    /\ pc = "done"
    /\ run < MaxRuns
    /\ otherDraws < MaxOtherDraws
    /\ npRandom' = Advance(npRandom)
    /\ otherDraws' = otherDraws + 1
    /\ UNCHANGED <<request, pc, trace, contourIdx, momentsOf, individual_trees,
                   tree_clusters, populated_trees, attempts, response, run,
                   firstResponse, rngAtCall>>

\* the same request is sent again
Rerun ==
    /\ pc = "done"
    /\ run < MaxRuns
    /\ run' = run + 1
    /\ firstResponse' = IF run = 1 THEN response ELSE firstResponse
    /\ response' = NoResponse
    /\ pc' = "request"
    /\ trace' = {}
    /\ contourIdx' = 0
    /\ momentsOf' = {}
    /\ individual_trees' = <<>>
    /\ tree_clusters' = <<>>
    /\ populated_trees' = <<>>
    /\ attempts' = 0
    /\ rngAtCall' = npRandom
    /\ otherDraws' = 0
    /\ UNCHANGED <<request, npRandom>>

Next ==
    \/ DecodeFails
    \/ BeginDetection
    \/ ScaleError
    \/ SkipNoise
    \/ SkipZeroMass
    \/ EnterCluster
    \/ PopulateError
    \/ SqrtError
    \/ AppendIndividual
    \/ DropIndividual
    \/ PopOutside
    \/ PopTooClose
    \/ PopAccept
    \/ PopulateReturn
    \/ Assemble
    \/ OtherDraw
    \/ Rerun

Spec == Init /\ [][Next]_vars

-----------------------------------------------------------------------------
(* The quantities of the specification, from the request alone *)

scaleX == RDiv(request.params.real_width, RInt(request.image.width))
scaleY == RDiv(request.params.real_height, RInt(request.image.height))
minDiameterM == request.params.min_diameter
maxDiameterM == request.params.max_diameter
clusterThresholdM == request.params.cluster_threshold

\* the preconditions of the specification hold of the request
ValidRequest ==
    /\ request.image.kind = "ok"
    /\ RLt(RInt(0), request.params.real_width)
    /\ RLt(RInt(0), request.params.real_height)
    /\ RLt(RInt(0), minDiameterM)
    /\ RLt(RInt(0), clusterThresholdM)
    /\ RLt(minDiameterM, maxDiameterM)

Processing == request.image.kind = "ok" /\ ~RZero(RMul(scaleX, scaleY))
Returned == pc = "done" /\ response.status = 200

areaM2Of(polygon) == RMul(RMul(contourArea(polygon), scaleX), scaleY)
avgArea == RMul(Pi, RSq(RDiv(RAdd(minDiameterM, maxDiameterM), RInt(4))))
Floor(a) == a.n \div a.d
targetCount(polygon) == Max2(1, Floor(RDiv(areaM2Of(polygon), avgArea)))
avgScale == RDiv(RAdd(scaleX, scaleY), RInt(2))

\* the pixel distance of p and q is >= minDiameterM / avgScale
AtLeastMinSpacing(p, q) ==
    \/ RLe(RDiv(minDiameterM, avgScale), RInt(0))
    \/ RLe(RSq(RDiv(minDiameterM, avgScale)),
           RInt((p[1] - q[1]) * (p[1] - q[1]) + (p[2] - q[2]) * (p[2] - q[2])))

WellSpaced(trees) ==
    \A a, b \in 1..Len(trees) :
        a # b => AtLeastMinSpacing(trees[a].positionPx, trees[b].positionPx)

\* every list of populated trees there is: the one being filled, the ones of
\* the clusters collected so far, the ones of a returned result
PopulatedLists ==
    (IF pc = "populate" THEN {<<contour, populated_trees>>} ELSE {})
      \cup {<<tree_clusters[k].polygonPx, tree_clusters[k].populatedTrees>> :
               k \in 1..Len(tree_clusters)}
      \cup (IF Returned
            THEN {<<response.body.treeClusters[k].polygonPx,
                    response.body.treeClusters[k].populatedTrees>> :
                     k \in 1..Len(response.body.treeClusters)}
            ELSE {})

-----------------------------------------------------------------------------
(* C1: in every list of populated trees, while it is filled and once it is *)
(* returned, any two distinct trees are at least minSpacingPx =             *)
(* minDiameterM / ((scaleX + scaleY) / 2) pixels apart and the list holds   *)
(* at most targetCount = max(1, floor(areaM2 / avgArea)) trees.             *)
C1_SpacingAndCount ==
    \A l \in PopulatedLists :
        /\ WellSpaced(l[2])
        /\ Len(l[2]) <= targetCount(l[1])

\* a returned cluster holds three trees, and candidates were rejected for it
C1_Witness ==
    /\ Returned
    /\ ValidRequest
    /\ \E k \in 1..Len(response.body.treeClusters) :
          /\ Len(response.body.treeClusters[k].populatedTrees) >= 3
          /\ k = Len(response.body.treeClusters)
          /\ attempts > Len(response.body.treeClusters[k].populatedTrees)

-----------------------------------------------------------------------------
(* C2: the sampling loop of populate_cluster terminates: attempts starts at *)
(* 0 and never exceeds maxAttempts = targetCount * 10, every iteration adds *)
(* exactly one to attempts, an iteration runs only while fewer than         *)
(* targetCount trees are accepted and attempts are left, and the loop then  *)
(* returns normally (possibly with fewer than targetCount trees).           *)
C2_Iteration ==
    (pc = "populate" /\ pc' = "populate") =>
        /\ attempts' = attempts + 1
        /\ attempts' <= 10 * targetCount(contour)
        /\ Len(populated_trees) < targetCount(contour)
        /\ Len(populated_trees') \in {Len(populated_trees), Len(populated_trees) + 1}

C2_Return ==
    (pc = "populate" /\ pc' # "populate") =>
        /\ \/ Len(populated_trees) = targetCount(contour)
           \/ attempts = 10 * targetCount(contour)
        /\ pc' = "loop"
        /\ response' = NoResponse
        /\ Len(tree_clusters') = Len(tree_clusters) + 1
        /\ tree_clusters'[Len(tree_clusters')].populatedTrees = populated_trees

C2_Enter ==
    (pc # "populate" /\ pc' = "populate") =>
        attempts' = 0 /\ populated_trees' = <<>>

\* C2: maxAttempts - attempts is never negative inside the loop and every
\* iteration decreases it by one, so the loop runs at most maxAttempts times
\* and then returns normally
C2_Terminates == [][C2_Enter /\ C2_Iteration /\ C2_Return]_vars

\* a cluster was returned under-filled after all its attempts were used
C2_Witness ==
    /\ pc = "loop"
    /\ ValidRequest
    /\ Len(tree_clusters) > 0
    /\ contourIdx > 1
    /\ tree_clusters[Len(tree_clusters)].polygonPx = contours[contourIdx - 1]
    /\ Len(populated_trees) < targetCount(contours[contourIdx - 1])
    /\ attempts = 10 * targetCount(contours[contourIdx - 1])

-----------------------------------------------------------------------------
(* C3: cluster population is reproducible: two calls with identical inputs *)
(* return identical lists of populated trees (positions, diameters, order), *)
(* whatever draws other code made on the generator before or between them.  *)
PopulatedOf(body) ==
    [k \in 1..Len(body.treeClusters) |-> body.treeClusters[k].populatedTrees]

\* C3: a later call with the same inputs returns the same populated trees
C3_Reproducible ==
    (Returned /\ run > 1 /\ firstResponse.status = 200) =>
        PopulatedOf(response.body) = PopulatedOf(firstResponse.body)

-----------------------------------------------------------------------------
(* C4: a call whose inputs violate a precondition (empty image, real width *)
(* or height <= 0, minDiameterM <= 0, maxDiameterM <= 0, minDiameterM >=    *)
(* maxDiameterM) runs no segmentation, extraction, classification or        *)
(* population step and never returns a DetectionResult.                     *)
InvalidInput ==
    \/ request.image.kind = "empty"
    \/ RLe(request.params.real_width, RInt(0))
    \/ RLe(request.params.real_height, RInt(0))
    \/ RLe(minDiameterM, RInt(0))
    \/ RLe(maxDiameterM, RInt(0))
    \/ RLe(maxDiameterM, minDiameterM)

\* C4: an invalid input runs no pipeline step and returns no DetectionResult
C4_FailFast ==
    InvalidInput => (trace = {} /\ (pc = "done" => response.status # 200))

-----------------------------------------------------------------------------
(* Regions and entries of a returned result *)

clusterAreaM2 == RMul(Pi, RSq(RDiv(clusterThresholdM, RInt(2))))
minAreaPx ==
    RDiv(RMul(Pi, RSq(RDiv(minDiameterM, RInt(2)))), RMul(scaleX, scaleY))

\* the square of estimatedDiameterM = 2 * sqrt(areaM2 / pi)
estimatedDiameterSqOf(polygon) == RMul(RInt(4), RDiv(areaM2Of(polygon), Pi))

DiameterInRange(polygon) ==
    /\ LeSqrt(minDiameterM, estimatedDiameterSqOf(polygon))
    /\ SqrtLe(estimatedDiameterSqOf(polygon), maxDiameterM)

LargerThanCluster(polygon) == RLt(clusterAreaM2, areaM2Of(polygon))

Individuals == response.body.individualTrees
Clusters == response.body.treeClusters
Summary == response.body.summary

ReportedPolygons ==
    {Individuals[k].polygonPx : k \in 1..Len(Individuals)}
      \cup {Clusters[k].polygonPx : k \in 1..Len(Clusters)}

\* a non-cluster region with a diameter out of range is in no list, no count
DroppedNowhere ==
    /\ \A j \in 1..Len(contours) :
          (~LargerThanCluster(contours[j]) /\ ~DiameterInRange(contours[j]))
              => contours[j] \notin ReportedPolygons
    /\ Summary.individualTreesCount + Summary.treeClustersCount
          = Cardinality(ReportedPolygons)

-----------------------------------------------------------------------------
(* C5, as claimed: the reported estimatedDiameterM of every individual     *)
(* tree is within [minDiameterM, maxDiameterM], and a non-cluster region    *)
(* with a diameter outside the range is in no list and no count.            *)
C5_ReportedInRange ==
    Returned =>
        /\ \A k \in 1..Len(Individuals) :
              /\ RLe(minDiameterM, Hundredths(Individuals[k].estimatedDiameterM))
              /\ RLe(Hundredths(Individuals[k].estimatedDiameterM), maxDiameterM)
        /\ DroppedNowhere

(* C5, amended: the unrounded diameter 2 * sqrt(areaM2 / pi) of every      *)
(* individual tree is within [minDiameterM, maxDiameterM]; the reported     *)
(* estimatedDiameterM is that diameter rounded to 2 decimals and so lies    *)
(* within [round(minDiameterM, 2), round(maxDiameterM, 2)]; a non-cluster   *)
(* region with a diameter outside the range is in no list and no count.     *)
C5_DiameterInRange ==
    Returned =>
        /\ \A k \in 1..Len(Individuals) :
              /\ DiameterInRange(Individuals[k].polygonPx)
              /\ Individuals[k].estimatedDiameterM
                    = Round2Sqrt(estimatedDiameterSqOf(Individuals[k].polygonPx))
              /\ Round2(minDiameterM) <= Individuals[k].estimatedDiameterM
              /\ Individuals[k].estimatedDiameterM <= Round2(maxDiameterM)
        /\ DroppedNowhere

\* a valid request returns an individual tree whose reported diameter left
\* the range by rounding, and drops a region that is too large for a tree
C5_Witness ==
    /\ Returned
    /\ ValidRequest
    /\ \E k \in 1..Len(Individuals) :
          RLt(Hundredths(Individuals[k].estimatedDiameterM), minDiameterM)
    /\ \E j \in 1..Len(contours) :
          /\ ~RLt(contourArea(contours[j]), minAreaPx)
          /\ ~LargerThanCluster(contours[j])
          /\ ~DiameterInRange(contours[j])

-----------------------------------------------------------------------------
(* C6, as claimed: the reported areaM2 of every cluster is strictly        *)
(* greater than pi * (clusterThresholdM / 2)^2, and a region whose area is  *)
(* at most that value is never reported as a cluster.                       *)
SmallNeverCluster ==
    \A j \in 1..Len(contours) :
        ~LargerThanCluster(contours[j])
            => \A k \in 1..Len(Clusters) : Clusters[k].polygonPx # contours[j]

C6_ReportedAboveThreshold ==
    Returned =>
        /\ \A k \in 1..Len(Clusters) :
              RLt(clusterAreaM2, Hundredths(Clusters[k].areaM2))
        /\ SmallNeverCluster

(* C6, amended: the unrounded area areaPx * scaleX * scaleY of every       *)
(* cluster is strictly greater than pi * (clusterThresholdM / 2)^2; the     *)
(* reported areaM2 is that area rounded to 2 decimals and so is at least    *)
(* the threshold area rounded to 2 decimals; a region whose area is at most *)
(* the threshold area is never reported as a cluster.                       *)
C6_AreaAboveThreshold ==
    Returned =>
        /\ \A k \in 1..Len(Clusters) :
              /\ LargerThanCluster(Clusters[k].polygonPx)
              /\ Clusters[k].areaM2 = Round2(areaM2Of(Clusters[k].polygonPx))
              /\ Clusters[k].areaM2 >= Round2(clusterAreaM2)
        /\ SmallNeverCluster

\* a valid request returns a cluster whose reported area was rounded to
\* below the threshold area, next to a smaller region that is no cluster
C6_Witness ==
    /\ Returned
    /\ ValidRequest
    /\ \E k \in 1..Len(Clusters) :
          RLe(Hundredths(Clusters[k].areaM2), clusterAreaM2)
    /\ \E j \in 1..Len(contours) : ~LargerThanCluster(contours[j])

-----------------------------------------------------------------------------
(* C7: every region that reaches the centroid computation, the             *)
(* classification, the population or an output list has areaPx >=           *)
(* minAreaPx = pi * (minDiameterM / 2)^2 / (scaleX * scaleY), also when     *)
(* clusterThresholdM < minDiameterM.                                        *)
PastNoiseFilter ==
    {contours[j] : j \in momentsOf}
      \cup {individual_trees[k].polygonPx : k \in 1..Len(individual_trees)}
      \cup {tree_clusters[k].polygonPx : k \in 1..Len(tree_clusters)}
      \cup (IF pc = "populate" THEN {contour} ELSE {})
      \cup (IF Returned THEN ReportedPolygons ELSE {})

C7_NoiseFiltered ==
    Processing =>
        \A polygon \in PastNoiseFilter : RLe(minAreaPx, contourArea(polygon))

\* with clusterThresholdM < minDiameterM a region below minAreaPx but above
\* the cluster area was discarded, and a larger one was reported
C7_Witness ==
    /\ Returned
    /\ ValidRequest
    /\ RLt(clusterThresholdM, minDiameterM)
    /\ \E j \in 1..Len(contours) :
          /\ RLt(contourArea(contours[j]), minAreaPx)
          /\ LargerThanCluster(contours[j])
          /\ j \notin momentsOf
          /\ contours[j] \notin ReportedPolygons
    /\ ReportedPolygons # {}

-----------------------------------------------------------------------------
(* C8: in every returned result the summary agrees with the lists: the     *)
(* individual count is the length of individualTrees, the cluster count the *)
(* length of treeClusters, the populated count the number of trees in all   *)
(* clusters' lists; with no regions all counts are zero, both lists empty.  *)
PopulatedSlots ==
    UNION {{<<k, t>> : t \in 1..Len(Clusters[k].populatedTrees)} :
              k \in 1..Len(Clusters)}

C8_SummaryAgrees ==
    Returned =>
        /\ Summary.individualTreesCount = Len(Individuals)
        /\ Summary.treeClustersCount = Len(Clusters)
        /\ Summary.totalPopulatedTrees = Cardinality(PopulatedSlots)
        /\ contours = <<>> =>
              /\ Summary = [individualTreesCount |-> 0, treeClustersCount |-> 0,
                            totalPopulatedTrees |-> 0]
              /\ Individuals = <<>> /\ Clusters = <<>>

\* a result with individual trees and a cluster holding several trees
C8_Witness ==
    /\ Returned
    /\ Len(Individuals) >= 1
    /\ Len(Clusters) >= 1
    /\ Summary.totalPopulatedTrees >= 2

-----------------------------------------------------------------------------
(* C9, as claimed: every reported metric point is the image of its pixel   *)
(* point under toMeters(px, py) = (px * scaleX, (imageHeightPx - py) *      *)
(* scaleY): centroids, polygon vertices and populated-tree positions.       *)
imageHeightPx == request.image.height

toMeters(p) ==
    << RMul(RInt(p[1]), scaleX), RMul(RInt(imageHeightPx - p[2]), scaleY) >>

EntryPoints(e) ==
    {<<e.centroidPx, e.centroidM>>}
      \cup {<<e.polygonPx[i], e.polygonM[i]>> : i \in 1..Len(e.polygonPx)}

\* the pairs <<pixel point, reported metric point>> of a returned result
ReportedPoints ==
    UNION {EntryPoints(Individuals[k]) : k \in 1..Len(Individuals)}
      \cup UNION {EntryPoints(Clusters[k]) : k \in 1..Len(Clusters)}
      \cup UNION {{<<Clusters[k].populatedTrees[t].positionPx,
                     Clusters[k].populatedTrees[t].positionM>> :
                       t \in 1..Len(Clusters[k].populatedTrees)} :
                  k \in 1..Len(Clusters)}

\* C9, as claimed: each reported metric point equals toMeters of its pixel point
C9_ExactImage ==
    Returned =>
        \A pm \in ReportedPoints :
            << Hundredths(pm[2][1]), Hundredths(pm[2][2]) >> = toMeters(pm[1])

(* C9, amended: every reported metric point is the image of its pixel      *)
(* point under toMeters, each coordinate rounded to 2 decimals; so a point  *)
(* of pixel row 0 is reported at Y = round(imageHeightPx * scaleY, 2) and a *)
(* point of row imageHeightPx - 1 at Y = round(scaleY, 2).                  *)
C9_RoundedImage ==
    Returned =>
        \A pm \in ReportedPoints :
            /\ pm[2] = << Round2(toMeters(pm[1])[1]), Round2(toMeters(pm[1])[2]) >>
            /\ pm[1][2] = 0 => pm[2][2] = Round2(RMul(RInt(imageHeightPx), scaleY))
            /\ pm[1][2] = imageHeightPx - 1 => pm[2][2] = Round2(scaleY)

\* a valid request returns populated trees, a point of row 0, a point of the
\* last row, and a point whose metric image has more than 2 decimals
C9_Witness ==
    /\ Returned
    /\ ValidRequest
    /\ \E k \in 1..Len(Clusters) : Len(Clusters[k].populatedTrees) > 0
    /\ \E pm \in ReportedPoints : pm[1][2] = 0
    /\ \E pm \in ReportedPoints : pm[1][2] = imageHeightPx - 1
    /\ \E pm \in ReportedPoints : Hundredths(pm[2][1]) # toMeters(pm[1])[1]

-----------------------------------------------------------------------------
(* C10: clusters are populated independently: the list of populated trees  *)
(* of every cluster of a result is the list its populator produces when it  *)
(* runs alone, whatever other clusters were populated before it.            *)

\* populate_cluster run to its end from generator state s
RECURSIVE PopulateAlone(_, _, _, _)
PopulateAlone(polygon, trees, att, s) ==
    IF ~LoopGuard(polygon, trees, att) THEN trees
    ELSE IF OutsideContour(polygon, test_x(polygon, s), test_y(polygon, s))
              \/ too_close(trees, test_x(polygon, s), test_y(polygon, s))
         THEN PopulateAlone(polygon, trees, att + 1, Advance(Advance(s)))
         ELSE PopulateAlone(polygon,
                  Append(trees, PopulatedTree(test_x(polygon, s), test_y(polygon, s), s)),
                  att + 1, Advance(Advance(Advance(s))))

\* C10: every cluster's list is the one its populator produces running alone
C10_Independent ==
    Returned =>
        \A k \in 1..Len(Clusters) :
            Clusters[k].populatedTrees
                = PopulateAlone(Clusters[k].polygonPx, <<>>, 0, rngAtCall)

-----------------------------------------------------------------------------
(* C11: in populate_cluster a candidate is accepted only if it lies inside *)
(* or on the boundary of the polygon and is at least minSpacingPx from      *)
(* every accepted tree, and a candidate that passes both tests is accepted  *)
(* (the boundary is not rejected); a rejected candidate leaves the list     *)
(* unchanged, an accepted one is appended at its end; every populated-tree  *)
(* pixel position lies in the polygon's bounding box and inside or on the   *)
(* polygon.                                                                 *)
InBoundingBox(polygon, p) ==
    /\ boundingRect(polygon).x <= p[1]
    /\ p[1] < boundingRect(polygon).x + boundingRect(polygon).w
    /\ boundingRect(polygon).y <= p[2]
    /\ p[2] < boundingRect(polygon).y + boundingRect(polygon).h

InsideOrOn(polygon, p) == pointPolygonTest(polygon, p) >= 0

SpacedFromAll(trees, p) ==
    \A k \in 1..Len(trees) : AtLeastMinSpacing(p, trees[k].positionPx)

\* the candidate drawn by the iteration that starts in the current state
Candidate == << test_x(contour, npRandom), test_y(contour, npRandom) >>

C11_Iteration ==
    (pc = "populate" /\ pc' = "populate") =>
        IF InsideOrOn(contour, Candidate) /\ SpacedFromAll(populated_trees, Candidate)
        THEN /\ Len(populated_trees') = Len(populated_trees) + 1
             /\ SubSeq(populated_trees', 1, Len(populated_trees)) = populated_trees
             /\ populated_trees'[Len(populated_trees')].positionPx = Candidate
        ELSE populated_trees' = populated_trees

C11_Positions ==
    \A l \in PopulatedLists :
        \A k \in 1..Len(l[2]) :
            /\ InBoundingBox(l[1], l[2][k].positionPx)
            /\ InsideOrOn(l[1], l[2][k].positionPx)

\* C11: acceptance is exactly the two tests, rejection changes nothing,
\* acceptance appends, and all positions are in the box and the polygon
C11_Acceptance == [][C11_Iteration /\ C11_Positions']_vars

\* a valid request returns a cluster with a tree on the boundary of its
\* polygon and a tree strictly inside it, after candidates were rejected
C11_Witness ==
    /\ Returned
    /\ ValidRequest
    /\ \E k \in 1..Len(Clusters) :
          /\ \E t \in 1..Len(Clusters[k].populatedTrees) :
                pointPolygonTest(Clusters[k].polygonPx,
                                 Clusters[k].populatedTrees[t].positionPx) = 0
          /\ \E t \in 1..Len(Clusters[k].populatedTrees) :
                pointPolygonTest(Clusters[k].polygonPx,
                                 Clusters[k].populatedTrees[t].positionPx) = 1
          /\ k = Len(Clusters)
          /\ attempts > Len(Clusters[k].populatedTrees)

====
